---- MODULE Spec2Model ----
(***************************************************************************)
(* Copperhead: a configuration loader that populates a destination struct  *)
(* from the environment, from files and from byte slices.                  *)
(*                                                                         *)
(* The destination is a Go struct reached through reflection.  A Go value  *)
(* is modelled by its type descriptor and a value tree: a struct is a      *)
(* record of its fields, a pointer is either NilPtr or a cell carrying the *)
(* identity of its allocation and its pointee.  A reflect.Value is a path  *)
(* into the destination together with the read-only flag that reflection   *)
(* attaches to values obtained through unexported fields.                  *)
(***************************************************************************)
EXTENDS Integers, Sequences, FiniteSets, TLC

(***************************************************************************)
(* Type descriptors (reflect.Type).                                        *)
(***************************************************************************)
TString == [kind |-> "string", name |-> "string"]

TBool == [kind |-> "bool", name |-> "bool"]

TInt == [kind |-> "int", name |-> "int"]

TEmptyInterface == [kind |-> "interface", name |-> "interface {}"]

TPtr(n, e) == [kind |-> "ptr", name |-> n, elem |-> e]

Fld(n, x, t) == [name |-> n, exported |-> x, type |-> t]

TStruct(n, fs) == [kind |-> "struct", name |-> n, fields |-> fs]

TSlice(n, e) == [kind |-> "slice", name |-> n, elem |-> e]

\* type nested struct { Value string; ValuePtr *string }
nested ==
    TStruct("nested", << Fld("Value", TRUE, TString),
                         Fld("ValuePtr", TRUE, TPtr("*string", TString)) >>)

\* type textFail struct{} with an UnmarshalText that always fails
textFail == TStruct("textFail", << >>)

\* net/url.URL, reduced to the parts of a URL the model's inputs have
urlURL ==
    TStruct("url.URL", << Fld("Scheme", TRUE, TString),
                          Fld("Host", TRUE, TString),
                          Fld("Path", TRUE, TString) >>)

\* type urlAlias url.URL: a defined type with the underlying type of
\* url.URL and none of its methods
urlAlias == TStruct("urlAlias", urlURL.fields)

\* type URL struct { url.URL } with UnmarshalText
copperheadURL == TStruct("copperhead.URL", << Fld("URL", TRUE, urlURL) >>)

\* The destination type: the test suite's mixConf, with the int field of the
\* TestRequireOnStatic struct, a bool field, an unexported pointer field, a
\* field of a defined type convertible to url.URL and a slice field.
mixConf ==
    TStruct("mixConf",
      << Fld("hidden", FALSE, TString),
         Fld("hiddenPtr", FALSE, TPtr("*string", TString)),
         Fld("Text", TRUE, TString),
         Fld("EmptyInterface", TRUE, TEmptyInterface),
         Fld("DoublePointer", TRUE, TPtr("**nested", TPtr("*nested", nested))),
         Fld("NestedPtr", TRUE, TPtr("*nested", nested)),
         Fld("Nested", TRUE, nested),
         Fld("TextFail", TRUE, textFail),
         Fld("URL", TRUE, TPtr("*url.URL", urlURL)),
         Fld("CopperURL", TRUE, TPtr("*copperhead.URL", copperheadURL)),
         Fld("Flag", TRUE, TBool),
         Fld("Port", TRUE, TInt),
         Fld("Alias", TRUE, urlAlias),
         Fld("List", TRUE, TSlice("[]string", TString)) >>)

FieldNames(t) == { t.fields[i].name : i \in DOMAIN t.fields }

FieldDecl(t, n) == t.fields[CHOOSE i \in DOMAIN t.fields : t.fields[i].name = n]

(***************************************************************************)
(* Values.                                                                 *)
(***************************************************************************)
NilPtr == [nil |-> TRUE]

PtrTo(id, e) == [nil |-> FALSE, id |-> id, elem |-> e]

NilInterface == [dyn |-> "nil"]

StringInterface(s) == [dyn |-> "string", s |-> s]

Float64Interface(n) == [dyn |-> "float64", n |-> n]

BoolInterface(b) == [dyn |-> "bool", b |-> b]

MapInterface(keys) == [dyn |-> "map", keys |-> keys]

\* The zero value of a type (reflect.Zero, and what reflect.New points to).
RECURSIVE Zero(_)
Zero(t) ==
    CASE t.kind = "string" -> ""
      [] t.kind = "bool" -> FALSE
      [] t.kind = "int" -> 0
      [] t.kind = "interface" -> NilInterface
      [] t.kind = "ptr" -> NilPtr
      [] t.kind = "slice" -> << >>
      [] t.kind = "struct" ->
            [n \in FieldNames(t) |-> Zero(FieldDecl(t, n).type)]

(***************************************************************************)
(* reflect.Value: a path into the destination (field names, "*" for a      *)
(* pointer dereference) and the read-only flag.                            *)
(***************************************************************************)
Deref == "*"

RECURSIVE Get(_, _)
Get(v, p) ==
    IF p = << >> THEN v
    ELSE IF Head(p) = Deref THEN Get(v.elem, Tail(p))
    ELSE Get(v[Head(p)], Tail(p))

RECURSIVE Put(_, _, _)
Put(v, p, x) ==
    IF p = << >> THEN x
    ELSE IF Head(p) = Deref
         THEN [v EXCEPT !.elem = Put(v.elem, Tail(p), x)]
         ELSE [v EXCEPT ![Head(p)] = Put(v[Head(p)], Tail(p), x)]

RECURSIVE TypeAt(_, _)
TypeAt(t, p) ==
    IF p = << >> THEN t
    ELSE IF Head(p) = Deref THEN TypeAt(t.elem, Tail(p))
    ELSE TypeAt(FieldDecl(t, Head(p)).type, Tail(p))

\* c.obj: the struct the destination pointer points to, addressable
RootValue == [path |-> << >>, ro |-> FALSE]

TypeOf(h) == TypeAt(mixConf, h.path)

Kind(h) == TypeOf(h).kind

\* Value.FieldByName: finds unexported fields too; their values are read-only
HasField(h, n) == n \in FieldNames(TypeOf(h))

FieldByName(h, n) ==
    [path |-> Append(h.path, n),
     ro |-> h.ro \/ ~FieldDecl(TypeOf(h), n).exported]

\* Value.Elem of a non-nil pointer: addressable, read-only flag inherited
Elem(h) == [path |-> Append(h.path, Deref), ro |-> h.ro]

CanSet(h) == ~h.ro

(***************************************************************************)
(* Errors.  An error value keeps what the message of the Go error carries: *)
(* which check failed, the field path and env key of the wrapping call,    *)
(* the wrapped cause, and the path segment a resolution error names.       *)
(***************************************************************************)
NoErr == [kind |-> "nil", seg |-> "", name |-> << >>, env |-> "", cause |-> "nil"]

NewErr(k, s) == [kind |-> k, seg |-> s, name |-> << >>, env |-> "", cause |-> "nil"]

Wrap(k, nm, key, e) ==
    [kind |-> k, seg |-> e.seg, name |-> nm, env |-> key, cause |-> e.kind]

IsErr(e) == e.kind # "nil"

(***************************************************************************)
(* External collaborators: the process environment, encoding/json and      *)
(* net/url, each over the byte strings the model's inputs are drawn from.  *)
(***************************************************************************)
MissingEnv == "__TEST_MISSING_ENV_VAR"

\* The environment, set with os.Setenv as the tests do; MissingEnv is never
\* set.
Environ ==
    [k \in {"FUBAR", "NUM", "URL_OK", "URL_BAD", "DUMB_USAGE", "QUOTED"} |->
        CASE k = "FUBAR" -> "foo"
          [] k = "NUM" -> "0"
          [] k = "URL_OK" -> "https://example.com"
          [] k = "URL_BAD" -> ":"
          [] k = "DUMB_USAGE" -> "{\"Value\":\"x\"}"
          [] k = "QUOTED" -> "\"foo\""]

EnvKeys == DOMAIN Environ \cup {MissingEnv}

\* os.LookupEnv
LookupEnv(k) ==
    IF k \in DOMAIN Environ THEN [ok |-> TRUE, val |-> Environ[k]]
    ELSE [ok |-> FALSE, val |-> ""]

JInvalid == [t |-> "invalid"]

JString(s) == [t |-> "string", s |-> s]

JNumber(n) == [t |-> "number", n |-> n]

JBool(b) == [t |-> "bool", b |-> b]

JObject(ks, vs) == [t |-> "object", keys |-> ks, vals |-> vs]

\* The JSON parse of each byte string of the model (json's scanner).
ParseJSON(s) ==
    CASE s = "0" -> JNumber(0)
      [] s = "\"foo\"" -> JString("foo")
      [] s = "{\"Value\":\"x\"}" -> JObject(<<"Value">>, <<JString("x")>>)
      [] s = "{\"Text\":\"hello\"}" -> JObject(<<"Text">>, <<JString("hello")>>)
      [] s = "{\"NestedPtr\":{\"Value\":\"n\"},\"Port\":1}" ->
            JObject(<<"NestedPtr", "Port">>,
                    <<JObject(<<"Value">>, <<JString("n")>>), JNumber(1)>>)
      [] s = "{\"Text\":0,\"Flag\":true}" ->
            JObject(<<"Text", "Flag">>, <<JNumber(0), JBool(TRUE)>>)
      [] s = "{\"DoublePointer\":{\"Value\":\"d\"}}" ->
            JObject(<<"DoublePointer">>,
                    <<JObject(<<"Value">>, <<JString("d")>>)>>)
      [] OTHER -> JInvalid

\* url.Parse on each byte string of the model.
ParseURL(s) ==
    CASE s = "https://example.com" ->
            [ok |-> TRUE,
             url |-> [Scheme |-> "https", Host |-> "example.com", Path |-> ""]]
      [] s \in {"foo", "0", "\"foo\""} ->
            [ok |-> TRUE, url |-> [Scheme |-> "", Host |-> "", Path |-> s]]
      [] OTHER -> [ok |-> FALSE, url |-> Zero(urlURL)]

\* The types whose pointer implements encoding.TextUnmarshaler
HasTextUnmarshaler(t) ==
    t.kind = "struct" /\ t.name \in {"textFail", "copperhead.URL"}

\* (*textFail).UnmarshalText and (*URL).UnmarshalText
UnmarshalText(t, cur, s) ==
    IF t.name = "copperhead.URL" /\ ParseURL(s).ok
    THEN [ok |-> TRUE, val |-> [URL |-> ParseURL(s).url]]
    ELSE [ok |-> FALSE, val |-> cur]

\* json's decode of a parsed value into a target of type t holding cur.
\* err: an error was met; abort: decoding stopped at it (an UnmarshalTypeError
\* is saved and decoding goes on, a decoder's own error stops it).
RECURSIVE jsonStore(_, _, _, _)
RECURSIVE jsonObject(_, _, _, _, _, _)
jsonStore(jv, t, cur, na) ==
    LET keep == [val |-> cur, nalloc |-> na, err |-> FALSE, abort |-> FALSE]
        typeErr == [keep EXCEPT !.err = TRUE]
        set(x) == [keep EXCEPT !.val = x]
    IN
    IF jv.t = "null"
    THEN IF t.kind \in {"ptr", "interface"} THEN set(Zero(t)) ELSE keep
    ELSE IF t.kind = "ptr"
    THEN LET id == IF cur.nil THEN na + 1 ELSE cur.id
             base == IF cur.nil THEN Zero(t.elem) ELSE cur.elem
             r == jsonStore(jv, t.elem, base, IF cur.nil THEN na + 1 ELSE na)
         IN [r EXCEPT !.val = PtrTo(id, r.val)]
    ELSE IF HasTextUnmarshaler(t)
    THEN IF jv.t = "string"
         THEN LET u == UnmarshalText(t, cur, jv.s)
              IN IF u.ok THEN set(u.val)
                 ELSE [keep EXCEPT !.err = TRUE, !.abort = TRUE]
         ELSE typeErr
    ELSE CASE t.kind = "struct" ->
                IF jv.t = "object"
                THEN jsonObject(jv.keys, jv.vals, t, cur, na, FALSE)
                ELSE typeErr
           [] t.kind = "string" ->
                IF jv.t = "string" THEN set(jv.s) ELSE typeErr
           [] t.kind = "int" ->
                IF jv.t = "number" THEN set(jv.n) ELSE typeErr
           [] t.kind = "bool" ->
                IF jv.t = "bool" THEN set(jv.b) ELSE typeErr
           [] t.kind = "slice" -> typeErr
           [] t.kind = "interface" ->
                CASE jv.t = "string" -> set(StringInterface(jv.s))
                  [] jv.t = "number" -> set(Float64Interface(jv.n))
                  [] jv.t = "bool" -> set(BoolInterface(jv.b))
                  [] jv.t = "object" -> set(MapInterface(jv.keys))

\* An object's members are stored in order into the exported fields they
\* name; members naming no exported field are skipped.
jsonObject(ks, vs, t, cur, na, err) ==
    IF ks = << >>
    THEN [val |-> cur, nalloc |-> na, err |-> err, abort |-> FALSE]
    ELSE LET k == Head(ks) IN
         IF k \in FieldNames(t) /\ FieldDecl(t, k).exported
         THEN LET r == jsonStore(Head(vs), FieldDecl(t, k).type, cur[k], na)
                  cur2 == [cur EXCEPT ![k] = r.val]
              IN IF r.abort
                 THEN [val |-> cur2, nalloc |-> r.nalloc, err |-> TRUE,
                       abort |-> TRUE]
                 ELSE jsonObject(Tail(ks), Tail(vs), t, cur2, r.nalloc,
                                 err \/ r.err)
         ELSE jsonObject(Tail(ks), Tail(vs), t, cur, na, err)

\* json.Unmarshal(data, &target): the input is checked whole before anything
\* is stored.
jsonDecode(jv, t, cur, na) ==
    IF jv.t = "invalid"
    THEN [val |-> cur, nalloc |-> na, err |-> TRUE, abort |-> TRUE]
    ELSE jsonStore(jv, t, cur, na)

jsonUnmarshal(data, t, cur, na) == jsonDecode(ParseJSON(data), t, cur, na)

(***************************************************************************)
(* The engine: ensureZero, resolve, assign.  Each takes the destination o  *)
(* and the allocation counter na and returns them as the call leaves them, *)
(* with the returned error and whether the call panicked.                  *)
(***************************************************************************)
\* An ensureZero that sets every pointer to a fresh zero value, the ones
\* that are not nil too.
ensureZeroReplacing(o, na, name, field) ==
    IF TypeOf(field).kind # "ptr"
    THEN [obj |-> o, nalloc |-> na, v |-> field, err |-> NoErr,
          panic |-> FALSE]
    ELSE IF TypeOf(field).elem.kind = "ptr"
    THEN [obj |-> o, nalloc |-> na, v |-> field, panic |-> FALSE,
          err |-> NewErr("pointers to pointers are unsupported", name)]
    ELSE IF ~CanSet(field)
    THEN [obj |-> o, nalloc |-> na, v |-> field, err |-> NoErr,
          panic |-> TRUE]
    ELSE [obj |-> Put(o, field.path, PtrTo(na + 1, Zero(TypeOf(field).elem))),
          nalloc |-> na + 1, v |-> Elem(field), err |-> NoErr,
          panic |-> FALSE]

\* ensureZero(name, field): a nil pointer is set to a fresh zero value, and
\* a pointer is dereferenced.  Value.Set panics on a read-only value.
ensureZero(o, na, name, field) ==
    LET t == TypeOf(field)
        base == [obj |-> o, nalloc |-> na, v |-> field, err |-> NoErr,
                 panic |-> FALSE]
    IN
    IF t.kind = "ptr" /\ Get(o, field.path).nil
    THEN IF t.elem.kind = "ptr"
         THEN [base EXCEPT !.err = NewErr("pointers to pointers are unsupported", name)]
         ELSE IF ~CanSet(field)
         THEN [base EXCEPT !.panic = TRUE]
         ELSE [base EXCEPT
                 !.obj = Put(o, field.path, PtrTo(na + 1, Zero(t.elem))),
                 !.nalloc = na + 1,
                 !.v = Elem(field)]
    ELSE IF t.kind = "ptr"
    THEN [base EXCEPT !.v = Elem(field)]
    ELSE base

\* The loop of resolve over the remaining segments; n is the value reached.
RECURSIVE resolveFrom(_, _, _, _)
\* After ensureZero returned z for a segment that is not the last one.
resolveInto(z, n, rest) ==
    IF z.panic \/ IsErr(z.err)
    THEN [z EXCEPT !.v = n]
    ELSE resolveFrom(z.obj, z.nalloc, z.v, rest)

\* A resolve that passes every segment to ensureZero, the last one too.
resolveFromEnsuringLast(o, na, n, path) ==
    IF path = << >>
    THEN [obj |-> o, nalloc |-> na, v |-> n, err |-> NoErr, panic |-> FALSE]
    ELSE IF Kind(n) # "struct"
    THEN [obj |-> o, nalloc |-> na, v |-> n, panic |-> FALSE,
          err |-> NewErr("cannot get field from a non-struct value", Head(path))]
    ELSE IF ~HasField(n, Head(path))
    THEN [obj |-> o, nalloc |-> na, v |-> n, panic |-> FALSE,
          err |-> NewErr("doesn't have a field", Head(path))]
    ELSE resolveInto(ensureZero(o, na, Head(path), FieldByName(n, Head(path))),
                     n, Tail(path))

resolveFrom(o, na, n, path) ==
    LET base == [obj |-> o, nalloc |-> na, v |-> n, err |-> NoErr,
                 panic |-> FALSE]
    IN
    IF path = << >> THEN base
    ELSE LET head == Head(path)
             rest == Tail(path)
         IN
         IF Kind(n) # "struct"
         THEN [base EXCEPT !.err = NewErr("cannot get field from a non-struct value", head)]
         ELSE IF ~HasField(n, head)
         THEN [base EXCEPT !.err = NewErr("doesn't have a field", head)]
         ELSE IF Len(rest) > 0
         THEN resolveInto(ensureZero(o, na, head, FieldByName(n, head)),
                          n, rest)
         ELSE resolveFrom(o, na, FieldByName(n, head), rest)

\* c.resolve(name); name is given as strings.Split(name, ".") returns it.
resolve(o, na, name) == resolveFrom(o, na, RootValue, name)

\* reflect.TypeOf("").AssignableTo(t)
StringAssignableTo(t) == t.kind = "string" \/ t.kind = "interface"

\* t.ConvertibleTo(urlType)
ConvertibleToURL(t) == t.kind = "struct" /\ t.fields = urlURL.fields

\* target.Addr().Interface() implements encoding.BinaryUnmarshaler
HasBinaryUnmarshaler(t) == t.name = "url.URL"

\* Mutant of assignTo: a string target is given the decoded string when the
\* value is a JSON string, the JSON decoding being tried first.
assignToJSONFirst(z, val) ==
    LET tg == z.v
        t == TypeOf(z.v)
        base == [obj |-> z.obj, nalloc |-> z.nalloc, err |-> NoErr,
                 panic |-> FALSE, strategy |-> "none"]
        store(x, how) ==
            [base EXCEPT !.obj = Put(z.obj, tg.path, x), !.strategy = how]
        jsonStored(j) ==
            [obj |-> Put(z.obj, tg.path, j.val), nalloc |-> j.nalloc,
             err |-> IF j.err
                     THEN NewErr("failed to decode value as JSON", "")
                     ELSE NoErr,
             panic |-> FALSE,
             strategy |-> IF j.err THEN "none" ELSE "json"]
        textStored(u) ==
            IF u.ok THEN store(u.val, "text")
            ELSE [base EXCEPT !.err = NewErr("text", "")]
    IN
    IF z.panic THEN [base EXCEPT !.panic = TRUE]
    ELSE IF IsErr(z.err) THEN [base EXCEPT !.err = z.err]
    ELSE IF ~CanSet(tg)
    THEN [base EXCEPT !.err = NewErr("cannot set the value", "")]
    ELSE IF t.kind = "string" /\ ParseJSON(val).t = "string"
    THEN store(ParseJSON(val).s, "json")
    ELSE IF StringAssignableTo(t)
    THEN store(IF t.kind = "interface" THEN StringInterface(val) ELSE val,
               "direct")
    ELSE IF ConvertibleToURL(t)
    THEN IF ~HasBinaryUnmarshaler(t) THEN [base EXCEPT !.panic = TRUE]
         ELSE IF ParseURL(val).ok
         THEN store(ParseURL(val).url, "url")
         ELSE [base EXCEPT !.err = NewErr("url", "")]
    ELSE IF HasTextUnmarshaler(t)
    THEN textStored(UnmarshalText(t, Get(z.obj, tg.path), val))
    ELSE jsonStored(jsonUnmarshal(val, t, Get(z.obj, tg.path), z.nalloc))

\* The conversions of assign, tried in order on the target ensureZero
\* returned in z.  strategy names the conversion that stored val.
assignTo(z, val) ==
    LET tg == z.v
        t == TypeOf(z.v)
        base == [obj |-> z.obj, nalloc |-> z.nalloc, err |-> NoErr,
                 panic |-> FALSE, strategy |-> "none"]
        store(x, how) ==
            [base EXCEPT !.obj = Put(z.obj, tg.path, x), !.strategy = how]
        jsonStored(j) ==
            [obj |-> Put(z.obj, tg.path, j.val), nalloc |-> j.nalloc,
             err |-> IF j.err
                     THEN NewErr("failed to decode value as JSON", "")
                     ELSE NoErr,
             panic |-> FALSE,
             strategy |-> IF j.err THEN "none" ELSE "json"]
        textStored(u) ==
            IF u.ok THEN store(u.val, "text")
            ELSE [base EXCEPT !.err = NewErr("text", "")]
    IN
    IF z.panic THEN [base EXCEPT !.panic = TRUE]
    ELSE IF IsErr(z.err) THEN [base EXCEPT !.err = z.err]
    ELSE IF ~CanSet(tg)
    THEN [base EXCEPT !.err = NewErr("cannot set the value", "")]
    ELSE IF StringAssignableTo(t)
    THEN store(IF t.kind = "interface" THEN StringInterface(val) ELSE val,
               "direct")
    ELSE IF ConvertibleToURL(t)
    THEN IF ~HasBinaryUnmarshaler(t) THEN [base EXCEPT !.panic = TRUE]
         ELSE IF ParseURL(val).ok
         THEN store(ParseURL(val).url, "url")
         ELSE [base EXCEPT !.err = NewErr("url", "")]
    ELSE IF HasTextUnmarshaler(t)
    THEN textStored(UnmarshalText(t, Get(z.obj, tg.path), val))
    ELSE jsonStored(jsonUnmarshal(val, t, Get(z.obj, tg.path), z.nalloc))

\* c.assign(target, val)
assign(o, na, target, val) ==
    assignTo(ensureZero(o, na, "target", target), val)

(***************************************************************************)
(* The orchestrator: Environment, Require, File, Data and New.             *)
(***************************************************************************)
\* What a method returns, in one shape for every method: the destination
\* and the allocation counter as it leaves them, the error, whether it
\* panicked, the visits of Environment's loop, whether the decoder was
\* invoked, and the number of names Require resolved.
Outcome(o, na, err, pan, steps, decoded, visited) ==
    [obj |-> o, nalloc |-> na, err |-> err, panic |-> pan, steps |-> steps,
     decoded |-> decoded, visited |-> visited]

\* One visit of the loop of Environment, as the call's record keeps it.
EnvStep(e, pre, post, outcome, strategy) ==
    [name |-> e.name, env |-> e.env, pre |-> pre, post |-> post,
     outcome |-> outcome, strategy |-> strategy]

\* The loop of Environment over the entries of envMap in the order the map
\* iteration yields them.
RECURSIVE environmentFrom(_, _, _, _)
\* Mutant of environmentAssigned: an error of c.assign is dropped and the
\* loop goes on.
environmentAssignedAnyway(o, e, rest, steps, a) ==
    IF a.panic
    THEN Outcome(a.obj, a.nalloc, NoErr, TRUE,
                 Append(steps, EnvStep(e, o, a.obj, "panic", "none")),
                 FALSE, 0)
    ELSE environmentFrom(a.obj, a.nalloc, rest,
             Append(steps, EnvStep(e, o, a.obj,
                                   IF IsErr(a.err) THEN "assign failed"
                                   ELSE "assigned", a.strategy)))

\* The visit of entry e after c.assign returned a.
environmentAssigned(o, e, rest, steps, a) ==
    IF a.panic
    THEN Outcome(a.obj, a.nalloc, NoErr, TRUE,
                 Append(steps, EnvStep(e, o, a.obj, "panic", "none")),
                 FALSE, 0)
    ELSE IF IsErr(a.err)
    THEN Outcome(a.obj, a.nalloc,
                 Wrap("could not assign the value", e.name, e.env, a.err),
                 FALSE,
                 Append(steps, EnvStep(e, o, a.obj, "assign failed", "none")),
                 FALSE, 0)
    ELSE environmentFrom(a.obj, a.nalloc, rest,
             Append(steps, EnvStep(e, o, a.obj, "assigned", a.strategy)))

\* Mutant of environmentResolved: the key is read with os.Getenv, so an
\* unset key assigns the empty string.
environmentResolvedGetenv(o, e, rest, steps, r) ==
    IF r.panic \/ IsErr(r.err)
    THEN Outcome(r.obj, r.nalloc,
                 IF r.panic THEN NoErr
                 ELSE Wrap("could not resolve", e.name, "", r.err),
                 r.panic,
                 Append(steps, EnvStep(e, o, r.obj,
                                       IF r.panic THEN "panic"
                                       ELSE "resolve failed", "none")),
                 FALSE, 0)
    ELSE environmentAssigned(o, e, rest, steps,
             assign(r.obj, r.nalloc, r.v, LookupEnv(e.env).val))

\* An Environment that goes on with the next entry when a path does not
\* resolve.
environmentResolvedContinuing(o, e, rest, steps, r) ==
    IF r.panic
    THEN Outcome(r.obj, r.nalloc, NoErr, TRUE,
                 Append(steps, EnvStep(e, o, r.obj, "panic", "none")),
                 FALSE, 0)
    ELSE IF IsErr(r.err)
    THEN environmentFrom(r.obj, r.nalloc, rest,
             Append(steps, EnvStep(e, o, r.obj, "resolve failed", "none")))
    ELSE IF ~LookupEnv(e.env).ok
    THEN environmentFrom(r.obj, r.nalloc, rest,
             Append(steps, EnvStep(e, o, r.obj, "skipped", "none")))
    ELSE environmentAssigned(o, e, rest, steps,
             assign(r.obj, r.nalloc, r.v, LookupEnv(e.env).val))

\* The visit of entry e after c.resolve returned r.
environmentResolved(o, e, rest, steps, r) ==
    IF r.panic
    THEN Outcome(r.obj, r.nalloc, NoErr, TRUE,
                 Append(steps, EnvStep(e, o, r.obj, "panic", "none")),
                 FALSE, 0)
    ELSE IF IsErr(r.err)
    THEN Outcome(r.obj, r.nalloc,
                 Wrap("could not resolve", e.name, "", r.err), FALSE,
                 Append(steps, EnvStep(e, o, r.obj, "resolve failed", "none")),
                 FALSE, 0)
    ELSE IF ~LookupEnv(e.env).ok
    THEN environmentFrom(r.obj, r.nalloc, rest,
             Append(steps, EnvStep(e, o, r.obj, "skipped", "none")))
    ELSE environmentAssigned(o, e, rest, steps,
             assign(r.obj, r.nalloc, r.v, LookupEnv(e.env).val))

environmentFrom(o, na, order, steps) ==
    IF order = << >>
    THEN Outcome(o, na, NoErr, FALSE, steps, FALSE, 0)
    ELSE environmentResolved(o, Head(order), Tail(order), steps,
                             resolve(o, na, Head(order).name))

\* c.Environment(envMap)
Environment(o, na, order) == environmentFrom(o, na, order, << >>)

\* The values of type t can be compared with ==.
RECURSIVE Comparable(_)
Comparable(t) ==
    CASE t.kind = "slice" -> FALSE
      [] t.kind = "struct" ->
            \A i \in DOMAIN t.fields : Comparable(t.fields[i].type)
      [] OTHER -> TRUE

\* The loop of Require; visited counts the names resolve was called for.
RECURSIVE requireFrom(_, _, _, _)
\* A Require that looks at what a pointer points to: a pointer to a zero
\* value counts as empty.
requireResolvedExamining(name, rest, visited, r) ==
    IF r.panic
    THEN Outcome(r.obj, r.nalloc, NoErr, TRUE, << >>, FALSE, visited + 1)
    ELSE IF IsErr(r.err)
    THEN Outcome(r.obj, r.nalloc, Wrap("failed to resolve", name, "", r.err),
                 FALSE, << >>, FALSE, visited + 1)
    ELSE IF TypeOf(r.v).kind = "ptr" /\ Get(r.obj, r.v.path).nil
    THEN Outcome(r.obj, r.nalloc, Wrap("is nil", name, "", NoErr),
                 FALSE, << >>, FALSE, visited + 1)
    ELSE IF /\ TypeOf(r.v).kind = "ptr"
            /\ Get(r.obj, r.v.path).elem = Zero(TypeOf(r.v).elem)
    THEN Outcome(r.obj, r.nalloc, Wrap("is empty", name, "", NoErr),
                 FALSE, << >>, FALSE, visited + 1)
    ELSE requireFrom(r.obj, r.nalloc, rest, visited + 1)

\* The check of name after c.resolve returned r.  Value.Interface panics on
\* a value obtained through an unexported field, and == panics on two
\* interface values of the same type that is not comparable.
requireResolved(name, rest, visited, r) ==
    LET t == TypeOf(r.v)
        stop(err, pan) ==
            Outcome(r.obj, r.nalloc, err, pan, << >>, FALSE, visited + 1)
        next == requireFrom(r.obj, r.nalloc, rest, visited + 1)
    IN
    IF r.panic THEN stop(NoErr, TRUE)
    ELSE IF IsErr(r.err)
    THEN stop(Wrap("failed to resolve", name, "", r.err), FALSE)
    ELSE IF t.kind = "ptr"
    THEN IF Get(r.obj, r.v.path).nil
         THEN stop(Wrap("is nil", name, "", NoErr), FALSE)
         ELSE next
    ELSE IF t.kind = "bool" THEN next
    ELSE IF r.v.ro THEN stop(NoErr, TRUE)
    ELSE IF ~Comparable(t) THEN stop(NoErr, TRUE)
    ELSE IF Zero(t) = Get(r.obj, r.v.path)
    THEN stop(Wrap("is empty", name, "", NoErr), FALSE)
    ELSE next

\* Mutant of requireFrom: the names are checked from the last one back.
requireFromBackwards(o, na, names, visited) ==
    IF names = << >>
    THEN Outcome(o, na, NoErr, FALSE, << >>, FALSE, visited)
    ELSE requireResolved(names[Len(names)],
                         SubSeq(names, 1, Len(names) - 1), visited,
                         resolve(o, na, names[Len(names)]))

requireFrom(o, na, names, visited) ==
    IF names = << >>
    THEN Outcome(o, na, NoErr, FALSE, << >>, FALSE, visited)
    ELSE requireResolved(Head(names), Tail(names), visited,
                         resolve(o, na, Head(names)))

\* c.Require(names...)
Require(o, na, names) == requireFrom(o, na, names, 0)

FileRequired == "required"

FileOptional == "optional"

\* ioutil.ReadFile on the paths of the model: a missing file, a directory,
\* and two files with their contents.
ReadFile(filename) ==
    CASE filename = "foobar.json" -> [err |-> "not exist", data |-> ""]
      [] filename = "./" -> [err |-> "is a directory", data |-> ""]
      [] filename = "example.conf" ->
            [err |-> "nil", data |-> "{\"Text\":\"hello\"}"]
      [] filename = "broken.conf" -> [err |-> "nil", data |-> "{\"Text\":"]

\* Mutant of Unmarshal: the document is decoded into a fresh zero mixConf
\* that then replaces the destination.
UnmarshalIntoFresh(unm, data, o, na) ==
    jsonUnmarshal(data, mixConf, Zero(mixConf), na)

\* unm.Unmarshal(data, c.obj.Addr().Interface()); a nil unm stands for
\* json.Unmarshal, the one decoder of the model.
Unmarshal(unm, data, o, na) ==
    IF unm = "nil"
    THEN jsonUnmarshal(data, mixConf, o, na)
    ELSE jsonUnmarshal(data, mixConf, o, na)

\* What File and Data return once the decoder returned u.
Unmarshaled(u, msg) ==
    Outcome(u.val, u.nalloc, IF u.err THEN NewErr(msg, "") ELSE NoErr,
            FALSE, << >>, TRUE, 0)

\* Mutant of fileRead: in FileOptional mode every read error is skipped.
fileReadSkippingAll(o, na, rd, mode, unm) ==
    IF rd.err # "nil" /\ mode = FileOptional
    THEN Outcome(o, na, NoErr, FALSE, << >>, FALSE, 0)
    ELSE IF rd.err # "nil"
    THEN Outcome(o, na, NewErr("missing configuration file", ""), FALSE,
                 << >>, FALSE, 0)
    ELSE Unmarshaled(Unmarshal(unm, rd.data, o, na),
                     "failed to unmarshal configuration file")

\* File after ioutil.ReadFile returned rd.
fileRead(o, na, rd, mode, unm) ==
    IF rd.err = "not exist" /\ mode = FileOptional
    THEN Outcome(o, na, NoErr, FALSE, << >>, FALSE, 0)
    ELSE IF rd.err = "not exist"
    THEN Outcome(o, na, NewErr("missing configuration file", ""), FALSE,
                 << >>, FALSE, 0)
    ELSE IF rd.err # "nil"
    THEN Outcome(o, na, NewErr("failed to read configuration file", ""),
                 FALSE, << >>, FALSE, 0)
    ELSE Unmarshaled(Unmarshal(unm, rd.data, o, na),
                     "failed to unmarshal configuration file")

\* c.File(filename, mode, unm)
File(o, na, filename, mode, unm) ==
    fileRead(o, na, ReadFile(filename), mode, unm)

\* c.Data(data, unm)
Data(o, na, data, unm) ==
    Unmarshaled(Unmarshal(unm, data, o, na),
                "failed to unmarshal configuration data")

(***************************************************************************)
(* A call of one of the methods of Config, which is also what an Option    *)
(* built by WithEnvironment, WithConfigurationData, WithConfigurationFile  *)
(* or Require does when New applies it.                                    *)
(***************************************************************************)
Call(op, order, file, mode, data, unm, names) ==
    [op |-> op, order |-> order, file |-> file, mode |-> mode, data |-> data,
     unm |-> unm, names |-> names]

EnvironmentCall(order) == Call("Environment", order, "", "", "", "", << >>)

FileCall(f, m, u) == Call("File", << >>, f, m, "", u, << >>)

DataCall(d, u) == Call("Data", << >>, "", "", d, u, << >>)

RequireCall(ns) == Call("Require", << >>, "", "", "", "", ns)

\* What the call does to the destination.
Apply(c, o, na) ==
    CASE c.op = "Environment" -> Environment(o, na, c.order)
      [] c.op = "File" -> File(o, na, c.file, c.mode, c.unm)
      [] c.op = "Data" -> Data(o, na, c.data, c.unm)
      [] c.op = "Require" -> Require(o, na, c.names)

\* The destinations New is given: conf == nil, the kind of conf's type, and
\* the kind of reflect.Indirect(conf) (invalid for a nil pointer).
UntypedNil == [isNil |-> TRUE, kind |-> "invalid", indirect |-> "invalid"]

NilPointer == [isNil |-> FALSE, kind |-> "ptr", indirect |-> "invalid"]

StructValue == [isNil |-> FALSE, kind |-> "struct", indirect |-> "struct"]

PointerToString == [isNil |-> FALSE, kind |-> "ptr", indirect |-> "string"]

PointerToStruct == [isNil |-> FALSE, kind |-> "ptr", indirect |-> "struct"]

\* What New returns: config tells whether it is a *Config; applied counts
\* the options invoked.
Constructed(o, na, err, pan, applied) ==
    [obj |-> o, nalloc |-> na, err |-> err, panic |-> pan,
     applied |-> applied, config |-> ~pan /\ ~IsErr(err)]

\* The loop of New over opts.
RECURSIVE applyOptions(_, _, _, _)
\* Mutant of optionApplied: the option's error is dropped and the loop
\* goes on.
optionAppliedAnyway(rest, applied, r) ==
    IF r.panic
    THEN Constructed(r.obj, r.nalloc, r.err, r.panic, applied + 1)
    ELSE applyOptions(r.obj, r.nalloc, rest, applied + 1)

\* After the option returned r.
optionApplied(rest, applied, r) ==
    IF r.panic \/ IsErr(r.err)
    THEN Constructed(r.obj, r.nalloc, r.err, r.panic, applied + 1)
    ELSE applyOptions(r.obj, r.nalloc, rest, applied + 1)

applyOptions(o, na, opts, applied) ==
    IF opts = << >>
    THEN Constructed(o, na, NoErr, FALSE, applied)
    ELSE optionApplied(Tail(opts), applied, Apply(Head(opts), o, na))

\* Mutant of New: the kind of what conf points to is not checked.
NewUnchecked(conf, opts, o, na) ==
    IF conf.isNil
    THEN Constructed(o, na, NewErr("conf cannot be nil", ""), FALSE, 0)
    ELSE IF conf.kind # "ptr"
    THEN Constructed(o, na, NewErr("conf must be a pointer to a struct", ""),
                     FALSE, 0)
    ELSE applyOptions(o, na, opts, 0)

\* New(conf, opts...)
New(conf, opts, o, na) ==
    LET fail(msg) == Constructed(o, na, NewErr(msg, ""), FALSE, 0)
    IN
    IF conf.isNil THEN fail("conf cannot be nil")
    ELSE IF conf.kind # "ptr" THEN fail("conf must be a pointer to a struct")
    ELSE IF conf.indirect # "struct"
    THEN fail("conf must be a pointer to a struct")
    ELSE applyOptions(o, na, opts, 0)

(***************************************************************************)
(* Bounds and the inputs the calls are drawn from.                         *)
(***************************************************************************)
\* Calls made by the program, New included
MaxCalls == 2

\* Options given to New
MaxOpts == 2

\* Entries of an envMap given to Environment
MaxEntries == 2

\* Names given to one Require
MaxNames == 2

Entry(name, env) == [name |-> name, env |-> env]

\* The field paths given to Getenv
FieldPaths ==
    { <<"hidden">>, <<"hiddenPtr">>, <<"Text">>, <<"EmptyInterface">>,
      <<"DoublePointer">>, <<"DoublePointer", "Value">>,
      <<"NestedPtr">>, <<"NestedPtr", "Value">>, <<"NestedPtr", "ValuePtr">>,
      <<"Nested">>, <<"Nested", "Value">>,
      <<"Nested", "Value", "WeDugTooDeep">>, <<"No", "Exist">>,
      <<"TextFail">>, <<"URL">>, <<"CopperURL">>, <<"Flag">>, <<"Port">>,
      <<"Alias">>, <<"List">>, <<"hiddenPtr", "Value">>,
      <<"NestedPtr", "ValuePtr", "x">> }

\* The entries the envMaps of Environment are made of
MapEntries ==
    { Entry(n, k) :
        n \in { <<"Text">>, <<"NestedPtr">>, <<"NestedPtr", "Value">>,
                <<"NestedPtr", "ValuePtr">>, <<"No", "Exist">> },
        k \in { "FUBAR", "DUMB_USAGE", MissingEnv } }
    \ { Entry(<<"No", "Exist">>, "DUMB_USAGE") }

\* An envMap in each order its iteration can take: no path occurs twice.
EnvOrders ==
    UNION { { s \in [1..n -> MapEntries] :
                \A i, j \in 1..n : i # j => s[i].name # s[j].name } :
            n \in 0..MaxEntries }

\* The names given to Require
RequireNames ==
    { <<"hidden">>, <<"Text">>, <<"EmptyInterface">>, <<"NestedPtr">>,
      <<"NestedPtr", "Value">>, <<"Nested">>, <<"CopperURL">>, <<"Flag">>,
      <<"Port">>, <<"Is___NotAField">>, <<"DoublePointer", "Value">>,
      <<"List">>, <<"hiddenPtr", "Value">>,
      <<"NestedPtr", "ValuePtr", "x">>,
      <<"URL">>, <<"hiddenPtr">>, <<"DoublePointer">> }

\* The names given together to one Require
ListedNames ==
    { <<"hidden">>, <<"Text">>, <<"NestedPtr">>, <<"NestedPtr", "Value">>,
      <<"Nested">>, <<"Is___NotAField">> }

RequireLists ==
    { <<n>> : n \in RequireNames }
    \cup UNION { [1..n -> ListedNames] : n \in 2..MaxNames }

FileNames == { "foobar.json", "./", "example.conf", "broken.conf" }

FileModes == { FileRequired, FileOptional }

Unmarshalers == { "nil", "json.Unmarshal" }

DataBuffers ==
    { "{\"Text\":\"hello\"}", "{\"NestedPtr\":{\"Value\":\"n\"},\"Port\":1}",
      "{\"Text\":0,\"Flag\":true}", "{\"DoublePointer\":{\"Value\":\"d\"}}",
      "{\"Text\":" }

Destinations ==
    { UntypedNil, NilPointer, StructValue, PointerToString, PointerToStruct }

\* The options New is given
Options ==
    { EnvironmentCall(<<Entry(<<"Text">>, "FUBAR")>>),
      EnvironmentCall(<<Entry(<<"NestedPtr", "Value">>, "FUBAR")>>),
      EnvironmentCall(<<Entry(<<"No", "Exist">>, "FUBAR")>>),
      DataCall("{\"Text\":\"hello\"}", "nil"),
      DataCall("{\"Text\":", "nil"),
      FileCall("foobar.json", FileOptional, "nil"),
      FileCall("foobar.json", FileRequired, "nil"),
      RequireCall(<<<<"Text">>>>) }

OptionLists == UNION { [1..n -> Options] : n \in 0..MaxOpts }

\* The destination before the program starts: a zero mixConf, or one with
\* defaults set by the caller.
ZeroConf == Zero(mixConf)

DefaultConf ==
    [ZeroConf EXCEPT
        !.hidden = "secret",
        !.hiddenPtr = PtrTo(1, "secret"),
        !.Text = "default",
        !.DoublePointer = PtrTo(2, NilPtr),
        !.NestedPtr = PtrTo(3, [Value |-> "old", ValuePtr |-> NilPtr]),
        !.Nested = [Value |-> "Hello!", ValuePtr |-> NilPtr],
        !.Port = 6194]

\* Allocations the defaults hold
DefaultAllocs == 3

(***************************************************************************)
(* The program: a caller that owns a mixConf, constructs a Config over it  *)
(* with New and then calls its methods.                                    *)
(***************************************************************************)
VARIABLES
    obj,      \* the caller's mixConf
    config,   \* whether New has returned a *Config bound to obj
    nalloc,   \* allocations made so far (the identity of the latest one)
    ncalls,   \* calls made so far
    last,     \* the latest call: its arguments, the destination before it,
              \* and what it returned
    orig,     \* the destination before the first call
    writer,   \* per root field, the latest call that named it (0: none)
    written   \* per root field, its value when that call returned

vars == <<obj, config, nalloc, ncalls, last, orig, writer, written>>

NoCall == Call("none", << >>, "", "", "", "", << >>)

\* No call is in progress or waiting for the caller to look at its result.
Idle ==
    [op |-> "none", conf |-> UntypedNil, opts |-> << >>, call |-> NoCall,
     pre |-> ZeroConf, prealloc |-> 0, err |-> NoErr, panic |-> FALSE,
     steps |-> << >>,
     decoded |-> FALSE, visited |-> 0, applied |-> 0, config |-> FALSE]

Init ==
    /\ \/ obj = ZeroConf /\ nalloc = 0
       \/ obj = DefaultConf /\ nalloc = DefaultAllocs
    /\ config = FALSE
    /\ ncalls = 0
    /\ last = Idle
    /\ orig = obj
    /\ writer = [f \in FieldNames(mixConf) |-> 0]
    /\ written = obj

\* The root fields a call names: the first segment of each path, or the
\* members of the document it decodes.
Named(c) ==
    FieldNames(mixConf) \cap
    CASE c.op = "Environment" ->
            { c.order[i].name[1] : i \in DOMAIN c.order }
      [] c.op = "Require" -> { c.names[i][1] : i \in DOMAIN c.names }
      [] c.op = "Data" ->
            IF ParseJSON(c.data).t = "object"
            THEN { ParseJSON(c.data).keys[i] :
                     i \in DOMAIN ParseJSON(c.data).keys }
            ELSE {}
      [] c.op = "File" ->
            IF ParseJSON(ReadFile(c.file).data).t = "object"
            THEN { ParseJSON(ReadFile(c.file).data).keys[i] :
                     i \in DOMAIN ParseJSON(ReadFile(c.file).data).keys }
            ELSE {}

\* The caller is ready to make a call: it has taken the result of the
\* latest one and has calls left to make.
Running == last = Idle /\ ncalls < MaxCalls

\* The destination and the bookkeeping after a call that named nm.
Returned(r, nm) ==
    /\ obj' = r.obj
    /\ nalloc' = r.nalloc
    /\ ncalls' = ncalls + 1
    /\ writer' = [f \in FieldNames(mixConf) |->
                    IF f \in nm THEN ncalls + 1 ELSE writer[f]]
    /\ written' = [f \in FieldNames(mixConf) |->
                    IF f \in nm THEN r.obj[f] ELSE written[f]]
    /\ UNCHANGED orig

\* The record of a call.
CallRecord(op, conf, opts, c, r, steps, decoded, visited, applied, cfg) ==
    [op |-> op, conf |-> conf, opts |-> opts, call |-> c, pre |-> obj,
     prealloc |-> nalloc, err |-> r.err, panic |-> r.panic, steps |-> steps, decoded |-> decoded,
     visited |-> visited, applied |-> applied, config |-> cfg]

\* The method returned r.
MethodReturned(op, c, r) ==
    /\ last' = CallRecord(op, PointerToStruct, << >>, c, r, r.steps,
                          r.decoded, r.visited, 0, TRUE)
    /\ Returned(r, Named(c))

\* New returned r.
NewReturned(conf, opts, r) ==
    /\ last' = CallRecord("New", conf, opts, NoCall, r, << >>, FALSE, 0,
                          r.applied, r.config)
    /\ config' = r.config
    /\ Returned(r, UNION { Named(opts[i]) : i \in 1..r.applied })

CallNew ==
    \E conf \in Destinations, opts \in OptionLists :
        /\ Running
        /\ ~config
        /\ NewReturned(conf, opts, New(conf, opts, obj, nalloc))

\* c.Getenv(field, env): Environment with the one entry field: env
CallGetenv ==
    \E field \in FieldPaths, env \in EnvKeys :
        /\ Running
        /\ config
        /\ MethodReturned("Getenv", EnvironmentCall(<<Entry(field, env)>>),
               Environment(obj, nalloc, <<Entry(field, env)>>))
        /\ UNCHANGED config

CallEnvironment ==
    \E order \in EnvOrders :
        /\ Running
        /\ config
        /\ MethodReturned("Environment", EnvironmentCall(order),
               Environment(obj, nalloc, order))
        /\ UNCHANGED config

CallFile ==
    \E f \in FileNames, m \in FileModes, u \in Unmarshalers :
        /\ Running
        /\ config
        /\ MethodReturned("File", FileCall(f, m, u),
               File(obj, nalloc, f, m, u))
        /\ UNCHANGED config

CallData ==
    \E d \in DataBuffers, u \in Unmarshalers :
        /\ Running
        /\ config
        /\ MethodReturned("Data", DataCall(d, u), Data(obj, nalloc, d, u))
        /\ UNCHANGED config

CallRequire ==
    \E ns \in RequireLists :
        /\ Running
        /\ config
        /\ MethodReturned("Require", RequireCall(ns),
               Require(obj, nalloc, ns))
        /\ UNCHANGED config

\* The caller takes the result of the latest call.  A panic is not
\* recovered: the program ends with it.
Proceed ==
    /\ last # Idle
    /\ ~last.panic
    /\ last' = Idle
    /\ UNCHANGED <<obj, config, nalloc, ncalls, orig, writer, written>>

Next ==
    \/ Proceed
    \/ CallNew
    \/ CallGetenv
    \/ CallEnvironment
    \/ CallFile
    \/ CallData
    \/ CallRequire

Spec == Init /\ [][Next]_vars

\* The program after c, _ := copperhead.New(&conf) with no option: the
\* Config exists and the destination is as the caller made it.
InitConstructed ==
    /\ \/ obj = ZeroConf /\ nalloc = 0
       \/ obj = DefaultConf /\ nalloc = DefaultAllocs
    /\ config = TRUE
    /\ ncalls = 0
    /\ last = Idle
    /\ orig = obj
    /\ writer = [f \in FieldNames(mixConf) |-> 0]
    /\ written = obj

\* The method calls made on that Config, one after another.
NextConstructed ==
    \/ Proceed
    \/ CallGetenv
    \/ CallEnvironment
    \/ CallFile
    \/ CallData
    \/ CallRequire

SpecConstructed == InitConstructed /\ [][NextConstructed]_vars

(***************************************************************************)
(* Properties.                                                             *)
(***************************************************************************)
\* The value of the field a dotted name reaches from v of type t, pointers
\* on the way followed; ok is FALSE when a nil pointer or a missing field is
\* in the way.  The field itself is not dereferenced.
RECURSIVE FieldAt(_, _, _)
FieldAt(v, t, name) ==
    IF t.kind = "struct" /\ name # << >> /\ Head(name) \in FieldNames(t)
    THEN LET ft == FieldDecl(t, Head(name)).type
             fv == v[Head(name)]
         IN IF Len(name) = 1 THEN [ok |-> TRUE, val |-> fv]
            ELSE IF ft.kind = "ptr"
            THEN IF fv.nil THEN [ok |-> FALSE, val |-> NilPtr]
                 ELSE FieldAt(fv.elem, ft.elem, Tail(name))
            ELSE FieldAt(fv, ft, Tail(name))
    ELSE [ok |-> FALSE, val |-> NilPtr]

Field(o, name) == FieldAt(o, mixConf, name)

IsPrefix(a, b) == Len(a) < Len(b) /\ SubSeq(b, 1, Len(a)) = a

EnvironmentOps == {"Getenv", "Environment"}

\* C1: over any sequence of calls on the same destination, a root field no
\* call has named still has the value it had before the first call, and a
\* field some call named has the value it had when the latest call naming it
\* returned; a later successful call overwrites what an earlier one stored.
C1_LastWriterWins ==
    /\ \A f \in FieldNames(mixConf) :
          obj[f] = IF writer[f] = 0 THEN orig[f] ELSE written[f]
    /\ ( /\ last.op = "Getenv"
         /\ last.call.order[1].name = <<"Text">>
         /\ LookupEnv(last.call.order[1].env).ok
         /\ ~IsErr(last.err) )
       => obj.Text = LookupEnv(last.call.order[1].env).val
    /\ (last.op = "Data" /\ last.call.data = "{\"Text\":\"hello\"}")
       => obj.Text = "hello"

\* A second call overwrote Text, which the first call had set, and left the
\* default of Nested, which no call named, in place.
C1_Witness ==
    /\ last.op = "Getenv"
    /\ ncalls = 2
    /\ last.pre.Text = "hello"
    /\ obj.Text = "foo"
    /\ orig.Text = "default"
    /\ writer["Nested"] = 0
    /\ obj.Nested.Value = "Hello!"

\* What the first n options of opts return when applied one after the other
\* from destination o, each whatever the one before it returned.
RECURSIVE AfterOptions(_, _, _, _)
AfterOptions(o, na, opts, n) ==
    IF n = 0 THEN Outcome(o, na, NoErr, FALSE, << >>, FALSE, 0)
    ELSE Apply(opts[n], AfterOptions(o, na, opts, n - 1).obj,
               AfterOptions(o, na, opts, n - 1).nalloc)

OptionFails(o, na, opts, n) ==
    IsErr(AfterOptions(o, na, opts, n).err) \/ AfterOptions(o, na, opts, n).panic

\* C2: New applies its options in the order given; at the first option that
\* returns an error it returns no Config and that error, and the options
\* after it are not applied; with no failing option all are applied.
C2_OptionsInOrder ==
    (last.op = "New" /\ last.conf = PointerToStruct) =>
        LET failing == { i \in 1..Len(last.opts) :
                           OptionFails(last.pre, last.prealloc, last.opts, i) }
            first == CHOOSE i \in failing : \A j \in failing : i <= j
            stop == IF failing = {} THEN Len(last.opts) ELSE first
            ref == AfterOptions(last.pre, last.prealloc, last.opts, stop)
        IN /\ last.applied = stop
           /\ obj = ref.obj
           /\ last.err = ref.err
           /\ last.panic = ref.panic
           /\ last.config = (failing = {})

\* New returned the error of its first option and did not apply the second,
\* which would have set Text.
C2_Witness ==
    /\ last.op = "New"
    /\ last.conf = PointerToStruct
    /\ Len(last.opts) = 2
    /\ last.opts[1] = EnvironmentCall(<<Entry(<<"No", "Exist">>, "FUBAR")>>)
    /\ last.opts[2] = EnvironmentCall(<<Entry(<<"Text">>, "FUBAR")>>)
    /\ last.err.kind = "could not resolve"
    /\ ~last.config
    /\ last.applied = 1
    /\ obj.Text # "foo"

\* C3: New returns an error, having applied no option, for a nil conf, a
\* nil pointer, a struct passed by value and a pointer to a non-struct; it
\* succeeds with no options for a pointer to a struct.
C3_DestinationChecked ==
    last.op = "New" =>
        /\ last.conf # PointerToStruct =>
              /\ IsErr(last.err)
              /\ ~last.panic
              /\ ~last.config
              /\ last.applied = 0
              /\ obj = last.pre
        /\ (last.conf = PointerToStruct /\ last.opts = << >>) =>
              /\ ~IsErr(last.err)
              /\ last.config

\* New rejected a pointer to a string that came with an option.
C3_Witness ==
    /\ last.op = "New"
    /\ last.conf = PointerToString
    /\ Len(last.opts) > 0
    /\ IsErr(last.err)
    /\ ~config

\* The visit s was of an entry whose path resolved and whose key is unset.
UnsetEntry(s) ==
    ~LookupEnv(s.env).ok /\ s.outcome \notin {"resolve failed", "panic"}

\* Another entry of the map could reach the field entry i names: it names a
\* longer path through that field, or a prefix of its path with a set key.
Overlapped(order, i) ==
    \E j \in DOMAIN order \ {i} :
        \/ IsPrefix(order[i].name, order[j].name)
        \/ IsPrefix(order[j].name, order[i].name) /\ LookupEnv(order[j].env).ok

\* C4 as stated: for every entry whose path resolves and whose key is unset,
\* the call does not fail at that entry and the field the path names has,
\* when the call returns, the value it had before the call.
C4_UnsetKeyKeepsFieldOverCall ==
    last.op \in EnvironmentOps =>
        \A i \in DOMAIN last.steps :
            UnsetEntry(last.steps[i]) =>
                /\ last.steps[i].outcome = "skipped"
                /\ Field(last.pre, last.steps[i].name).ok =>
                      Field(obj, last.steps[i].name)
                          = Field(last.pre, last.steps[i].name)

\* C4, amended: the visit of an entry whose path resolves and whose key is
\* unset is a skip that does not end the call and leaves the destination as
\* it found it (the field was reachable, so nothing was materialized); the
\* field has its value of before the call when the call returns unless
\* another entry of the same map names a longer path through it or, with a
\* set key, a prefix of its path.
C4_UnsetKeyKeepsField ==
    last.op \in EnvironmentOps =>
        \A i \in DOMAIN last.steps :
            UnsetEntry(last.steps[i]) =>
                /\ last.steps[i].outcome = "skipped"
                /\ i = Len(last.steps) => ~IsErr(last.err) /\ ~last.panic
                /\ Field(last.steps[i].pre, last.steps[i].name).ok =>
                      last.steps[i].post = last.steps[i].pre
                /\ ( /\ Field(last.pre, last.steps[i].name).ok
                     /\ ~Overlapped(last.call.order, i) ) =>
                      Field(obj, last.steps[i].name)
                          = Field(last.pre, last.steps[i].name)

\* Text, mapped to an unset key, kept its default while the other entry of
\* the map was assigned.
C4_Witness ==
    /\ last.op = "Environment"
    /\ Len(last.steps) = 2
    /\ last.steps[1].name = <<"Text">>
    /\ last.steps[1].env = MissingEnv
    /\ last.steps[1].outcome = "skipped"
    /\ last.steps[2].outcome = "assigned"
    /\ ~IsErr(last.err)
    /\ last.pre.Text = "default"
    /\ obj.Text = "default"

\* C5: File on a path that does not exist returns no error in FileOptional
\* mode and a missing-file error in FileRequired mode; any other read
\* failure is an error in both modes; in each of these cases the decoder is
\* not invoked and the destination is as it was.
C5_FileReadFailures ==
    last.op = "File" =>
        /\ ( /\ ReadFile(last.call.file).err = "not exist"
             /\ last.call.mode = FileOptional ) =>
              /\ ~IsErr(last.err)
              /\ ~last.panic
              /\ ~last.decoded
              /\ obj = last.pre
        /\ ( /\ ReadFile(last.call.file).err = "not exist"
             /\ last.call.mode = FileRequired ) =>
              /\ last.err.kind = "missing configuration file"
              /\ ~last.panic
              /\ ~last.decoded
              /\ obj = last.pre
        /\ ReadFile(last.call.file).err \notin {"nil", "not exist"} =>
              /\ last.err.kind = "failed to read configuration file"
              /\ ~last.panic
              /\ ~last.decoded
              /\ obj = last.pre

\* File on a directory failed in FileOptional mode and left the defaults.
C5_Witness ==
    /\ last.op = "File"
    /\ last.call.file = "./"
    /\ last.call.mode = FileOptional
    /\ IsErr(last.err)
    /\ ~last.decoded
    /\ obj = DefaultConf

\* C6 as stated: an entry whose path goes through DoublePointer, or names it
\* with a set key, fails with the pointers-to-pointers error, whether the
\* outer pointer is nil or not, and stores nothing through it.
C6_DoublePointerAlwaysFails ==
    last.op \in EnvironmentOps =>
        \A i \in DOMAIN last.steps :
            ( /\ last.steps[i].name[1] = "DoublePointer"
              /\ \/ Len(last.steps[i].name) > 1
                 \/ LookupEnv(last.steps[i].env).ok ) =>
                /\ last.steps[i].outcome \in {"resolve failed", "assign failed"}
                /\ last.err.cause = "pointers to pointers are unsupported"
                /\ last.steps[i].post.DoublePointer
                       = last.steps[i].pre.DoublePointer

\* DoublePointer pointed to a nil *nested; Getenv decoded the value of
\* DUMB_USAGE through it and returned no error.
C6_StoredThroughDoublePointer ==
    /\ last.op = "Getenv"
    /\ last.call.order[1] = Entry(<<"DoublePointer">>, "DUMB_USAGE")
    /\ ~last.pre.DoublePointer.nil
    /\ last.pre.DoublePointer.elem.nil
    /\ ~IsErr(last.err)
    /\ last.steps[1].strategy = "json"
    /\ ~obj.DoublePointer.elem.nil
    /\ obj.DoublePointer.elem.elem.Value = "x"

\* An entry named P.F with F a field of nested, and its key is set.
NestedEntry(s) ==
    /\ Len(s.name) = 2
    /\ s.name[1] = "NestedPtr"
    /\ s.name[2] \in {"Value", "ValuePtr"}
    /\ LookupEnv(s.env).ok

\* In o, NestedPtr is not nil and its field f holds the string val.
NestedHolds(o, f, val) ==
    /\ ~o.NestedPtr.nil
    /\ IF f = "Value" THEN o.NestedPtr.elem.Value = val
       ELSE /\ ~o.NestedPtr.elem.ValuePtr.nil
            /\ o.NestedPtr.elem.ValuePtr.elem = val

\* Another entry of the map names, with a set key, a prefix of entry i's path.
PrefixAssigned(order, i) ==
    \E j \in DOMAIN order \ {i} :
        IsPrefix(order[j].name, order[i].name) /\ LookupEnv(order[j].env).ok

\* C7 as stated: after a successful Environment call with an entry P.F whose
\* key is set to s, P having been nil before the call, P is not nil and F
\* holds s.
C7_NestedHoldsAfterCall ==
    (last.op \in EnvironmentOps /\ ~IsErr(last.err) /\ ~last.panic) =>
        \A i \in DOMAIN last.steps :
            (NestedEntry(last.steps[i]) /\ last.pre.NestedPtr.nil) =>
                NestedHolds(obj, last.steps[i].name[2],
                            LookupEnv(last.steps[i].env).val)

\* C7, visit by visit: when the entry P.F has been visited, P is not nil
\* and F holds s, a nil *string F having been set to a new pointer to s;
\* this is still so when the call returns if no other entry of the map
\* names P itself with a set key; and an assignment to a pointer field that
\* was not nil keeps the allocation the field pointed to.
C7_NestedAssignment ==
    (last.op \in EnvironmentOps /\ ~IsErr(last.err) /\ ~last.panic) =>
        \A i \in DOMAIN last.steps :
            /\ NestedEntry(last.steps[i]) =>
                  /\ last.steps[i].outcome = "assigned"
                  /\ last.steps[i].strategy = "direct"
                  /\ NestedHolds(last.steps[i].post, last.steps[i].name[2],
                                 LookupEnv(last.steps[i].env).val)
                  /\ ~PrefixAssigned(last.call.order, i) =>
                        NestedHolds(obj, last.steps[i].name[2],
                                    LookupEnv(last.steps[i].env).val)
            /\ ( /\ last.steps[i].outcome = "assigned"
                 /\ last.steps[i].name \in {<<"NestedPtr">>,
                                            <<"NestedPtr", "ValuePtr">>}
                 /\ Field(last.steps[i].pre, last.steps[i].name).ok
                 /\ ~Field(last.steps[i].pre, last.steps[i].name).val.nil ) =>
                  Field(last.steps[i].post, last.steps[i].name).val.id
                      = Field(last.steps[i].pre, last.steps[i].name).val.id

\* The map named NestedPtr.Value and NestedPtr; Value was visited first and
\* set to the value of FUBAR, then the payload of DUMB_USAGE was decoded
\* into the same struct: the call returned no error and Value is not "foo".
C7_OverwrittenByPrefix ==
    /\ last.op = "Environment"
    /\ last.call.order = << Entry(<<"NestedPtr", "Value">>, "FUBAR"),
                            Entry(<<"NestedPtr">>, "DUMB_USAGE") >>
    /\ last.pre.NestedPtr.nil
    /\ ~IsErr(last.err)
    /\ last.steps[1].post.NestedPtr.elem.Value = "foo"
    /\ obj.NestedPtr.elem.Value = "x"

\* The same map visited in the other order: Value holds the value of FUBAR.
C7_PrefixFirst ==
    /\ last.op = "Environment"
    /\ last.call.order = << Entry(<<"NestedPtr">>, "DUMB_USAGE"),
                            Entry(<<"NestedPtr", "Value">>, "FUBAR") >>
    /\ last.pre.NestedPtr.nil
    /\ ~IsErr(last.err)
    /\ obj.NestedPtr.elem.Value = "foo"

\* The declared type of the field a dotted name reaches from type t.
RECURSIVE FieldTypeAt(_, _)
FieldTypeAt(t, name) ==
    LET ft == FieldDecl(t, Head(name)).type
    IN IF Len(name) = 1 THEN ft
       ELSE IF ft.kind = "ptr" THEN FieldTypeAt(ft.elem, Tail(name))
       ELSE FieldTypeAt(ft, Tail(name))

\* The field of type t holding v is missing or empty: a nil pointer, or a
\* value other than a boolean that equals the zero value of t.
MissingOrEmpty(t, v) ==
    CASE t.kind = "ptr" -> v.nil
      [] t.kind = "bool" -> FALSE
      [] OTHER -> v = Zero(t)

\* C8 as stated: Require of one name that resolves returns an error exactly
\* when the field is a nil pointer or, not being a boolean, equals the zero
\* value of its declared type.
C8_RequireComparesWithZero ==
    ( /\ last.op = "Require"
      /\ Len(last.call.names) = 1
      /\ last.err.kind # "failed to resolve"
      /\ Field(obj, last.call.names[1]).ok ) =>
        /\ ~last.panic
        /\ IsErr(last.err)
             <=> MissingOrEmpty(FieldTypeAt(mixConf, last.call.names[1]),
                                Field(obj, last.call.names[1]).val)

\* Require of the unexported string field, which holds a value, panicked.
C8_RequirePanics ==
    /\ last.op = "Require"
    /\ last.call.names = << <<"hidden">> >>
    /\ last.pre.hidden = "secret"
    /\ last.panic
    /\ ~IsErr(last.err)

\* What Require returns for the n-th of names alone, called after Require
\* for each of the names before it, one call per name.
RECURSIVE AfterNames(_, _, _, _)
AfterNames(o, na, names, n) ==
    IF n = 0 THEN Outcome(o, na, NoErr, FALSE, << >>, FALSE, 0)
    ELSE Require(AfterNames(o, na, names, n - 1).obj,
                 AfterNames(o, na, names, n - 1).nalloc, <<names[n]>>)

NameFails(o, na, names, n) ==
    IsErr(AfterNames(o, na, names, n).err) \/ AfterNames(o, na, names, n).panic

C10_UnexportedAssignFails ==
    last.op \in EnvironmentOps =>
        \A i \in DOMAIN last.steps :
            ( /\ last.steps[i].name \in {<<"hidden">>, <<"hiddenPtr">>}
              /\ LookupEnv(last.steps[i].env).ok ) =>
                /\ ~last.panic
                /\ last.steps[i].outcome = "assign failed"
                /\ last.err.kind = "could not assign the value"
                /\ last.err.cause = "cannot set the value"
                /\ obj[last.steps[i].name[1]]
                       = last.pre[last.steps[i].name[1]]

\* Getenv on the unexported nil pointer field panicked where it sets the
\* field to a new zero value.
C10_AssignPanics ==
    /\ last.op = "Getenv"
    /\ last.call.order[1] = Entry(<<"hiddenPtr">>, "FUBAR")
    /\ last.pre.hiddenPtr.nil
    /\ last.steps[1].outcome = "panic"
    /\ last.panic

\* The type assign converts into for an entry named name: the type of the
\* field, or of what it points to.
TargetType(name) ==
    IF FieldTypeAt(mixConf, name).kind = "ptr"
    THEN FieldTypeAt(mixConf, name).elem
    ELSE FieldTypeAt(mixConf, name)

\* The value of that target in o, where the field is not a nil pointer.
TargetValue(o, name) ==
    IF FieldTypeAt(mixConf, name).kind = "ptr"
    THEN Field(o, name).val.elem
    ELSE Field(o, name).val

\* The visit s got as far as the conversions of assign: the key is set, the
\* target was there and could be set, and what was tried returned.
Converting(s, err) ==
    /\ LookupEnv(s.env).ok
    /\ s.outcome \in {"assigned", "assign failed"}
    /\ s.outcome = "assign failed" =>
          err.cause \notin {"cannot set the value",
                            "pointers to pointers are unsupported"}

\* The first of the four conversions, in their order, that applies to a
\* target of type t.
Applies(t) ==
    IF StringAssignableTo(t) THEN "direct"
    ELSE IF ConvertibleToURL(t) THEN "url"
    ELSE IF HasTextUnmarshaler(t) THEN "text"
    ELSE "json"

C11_URLRejectedJSONUntried ==
    /\ last.op = "Getenv"
    /\ last.call.order[1] = Entry(<<"URL">>, "DUMB_USAGE")
    /\ last.err.cause = "url"
    /\ ~jsonUnmarshal("{\"Value\":\"x\"}", urlURL, Zero(urlURL), 0).err

\* The decoder assign would use for a target of type t rejects val: the URL
\* or the text decoder fails, or t is a struct with neither decoder and val
\* is not a JSON object.
Rejected(t, val) ==
    \/ ConvertibleToURL(t) /\ HasBinaryUnmarshaler(t) /\ ~ParseURL(val).ok
    \/ HasTextUnmarshaler(t) /\ ~UnmarshalText(t, Zero(t), val).ok
    \/ /\ t.kind = "struct"
       /\ ~ConvertibleToURL(t)
       /\ ~HasTextUnmarshaler(t)
       /\ ParseJSON(val).t # "object"

\* C12: when an entry with a set key names an exported field whose target
\* has the URL decoder or a text decoder and the decoder rejects the value,
\* or whose target is a struct with neither and the value is not a JSON
\* object, the call returns an error for that entry.
C12_DecoderRejects ==
    last.op \in EnvironmentOps =>
        \A i \in DOMAIN last.steps :
            ( /\ LookupEnv(last.steps[i].env).ok
              /\ last.steps[i].outcome # "resolve failed"
              /\ Len(last.steps[i].name) = 1
              /\ FieldDecl(mixConf, last.steps[i].name[1]).exported
              /\ Rejected(TargetType(last.steps[i].name),
                          LookupEnv(last.steps[i].env).val) ) =>
                /\ last.steps[i].outcome = "assign failed"
                /\ i = Len(last.steps)
                /\ ~last.panic
                /\ last.err.kind = "could not assign the value"
                /\ last.err.name = last.steps[i].name
                /\ last.err.env = last.steps[i].env

\* "0" was not decoded into the struct Nested: Getenv returned the error of
\* the JSON decoding.
C12_Witness ==
    /\ last.op = "Getenv"
    /\ last.call.order[1] = Entry(<<"Nested">>, "NUM")
    /\ last.err.kind = "could not assign the value"
    /\ last.err.cause = "failed to decode value as JSON"
    /\ obj.Nested = last.pre.Nested

\* C13 as stated: every call returns, with an error when it fails; none
\* ends in a panic, whatever the destination, the path and the value.
C13_NoPanic == ~last.panic

\* Getenv on a field of a defined type convertible to url.URL panicked where
\* the target is asserted to be a BinaryUnmarshaler.
C13_AliasPanics ==
    /\ last.op = "Getenv"
    /\ last.call.order[1] = Entry(<<"Alias">>, "URL_OK")
    /\ last.steps[1].outcome = "panic"
    /\ last.panic
    /\ ~IsErr(last.err)
    /\ obj = last.pre

\* Require of the slice field panicked where it compares with the zero value.
C13_SlicePanics ==
    /\ last.op = "Require"
    /\ last.call.names = << <<"List">> >>
    /\ last.panic
    /\ ~IsErr(last.err)

\* Resolving a path through the unexported nil pointer field panicked where
\* the field is set to a new zero value, the key of the entry being unset.
C13_IntermediatePanics ==
    /\ last.op = "Getenv"
    /\ last.call.order[1] = Entry(<<"hiddenPtr", "Value">>, MissingEnv)
    /\ last.pre.hiddenPtr.nil
    /\ last.steps[1].outcome = "panic"
    /\ last.panic

\* The declared type of the field the segments of name lead to from the
\* struct type t, pointers to structs and to values being followed; ok is
\* FALSE when a segment names no field of the struct reached so far.
RECURSIVE Declared(_, _)
Declared(t, name) ==
    IF t.kind # "struct" \/ Head(name) \notin FieldNames(t)
    THEN [ok |-> FALSE, type |-> t]
    ELSE IF Len(name) = 1
    THEN [ok |-> TRUE, type |-> FieldDecl(t, Head(name)).type]
    ELSE IF FieldDecl(t, Head(name)).type.kind = "ptr"
    THEN Declared(FieldDecl(t, Head(name)).type.elem, Tail(name))
    ELSE Declared(FieldDecl(t, Head(name)).type, Tail(name))

\* The names the latest call resolved.
ResolvedNames ==
    IF last.op \in EnvironmentOps
    THEN { last.steps[i].name : i \in DOMAIN last.steps }
    ELSE IF last.op = "Require"
    THEN { last.call.names[i] : i \in 1..last.visited }
    ELSE {}

\* The non-terminal segments of the resolved names that are pointers to a
\* struct or to a value: each is given as the path that leads to it.
Intermediates ==
    { p \in UNION { { SubSeq(nm, 1, k) : k \in 1..(Len(nm) - 1) } :
                    nm \in ResolvedNames } :
        /\ Declared(mixConf, p).ok
        /\ Declared(mixConf, p).type.kind = "ptr"
        /\ Declared(mixConf, p).type.elem.kind # "ptr" }

\* C14 as stated: a pointer to a struct or to a value that resolution goes
\* through as a non-terminal segment is not nil when the call has returned,
\* whatever a later segment did, and is the pointer it was if it was not
\* nil before.
C14_IntermediateMaterialized ==
    \A p \in Intermediates :
        /\ Field(obj, p).ok
        /\ ~Field(obj, p).val.nil
        /\ (Field(last.pre, p).ok /\ ~Field(last.pre, p).val.nil) =>
              Field(obj, p).val.id = Field(last.pre, p).val.id

\* Require of a path through the unexported nil pointer field panicked and
\* the field is still nil.
C14_UnexportedNotMaterialized ==
    /\ last.op = "Require"
    /\ last.call.names = << <<"hiddenPtr", "Value">> >>
    /\ last.pre.hiddenPtr.nil
    /\ last.panic
    /\ obj.hiddenPtr.nil

\* Resolving NestedPtr.ValuePtr.x failed at x, a string having no fields,
\* and left both pointers on the way set.
C14_MaterializedBeforeFailure ==
    /\ last.op = "Require"
    /\ last.call.names = << <<"NestedPtr", "ValuePtr", "x">> >>
    /\ last.pre.NestedPtr.nil
    /\ last.err.cause = "cannot get field from a non-struct value"
    /\ ~obj.NestedPtr.nil
    /\ obj.NestedPtr.elem.ValuePtr = PtrTo(2, "")

\* The value of the field that name leads to in o: the zero value of its
\* type while a nil pointer on the way keeps it from existing.
TerminalValue(o, name) ==
    IF Field(o, name).ok THEN Field(o, name).val
    ELSE Zero(Declared(mixConf, name).type)

\* C15: resolution leaves the field named by the last segment as it was.
\* Require does so for each name it resolved, and Environment for each
\* entry it resolved and skipped because its key is unset; a nil pointer
\* there is still nil.
C15_TerminalUntouched ==
    /\ last.op = "Require" =>
          \A nm \in ResolvedNames :
              Declared(mixConf, nm).ok =>
                  TerminalValue(obj, nm) = TerminalValue(last.pre, nm)
    /\ last.op \in EnvironmentOps =>
          \A i \in DOMAIN last.steps :
              (last.steps[i].outcome = "skipped"
                  /\ Declared(mixConf, last.steps[i].name).ok) =>
                  TerminalValue(last.steps[i].post, last.steps[i].name)
                    = TerminalValue(last.steps[i].pre, last.steps[i].name)

\* An entry for NestedPtr.ValuePtr with an unset key was skipped: NestedPtr,
\* nil before, was materialized on the way and ValuePtr is still nil.
C15_Witness ==
    /\ last.op \in EnvironmentOps
    /\ \E i \in DOMAIN last.steps :
          /\ last.steps[i].name = <<"NestedPtr", "ValuePtr">>
          /\ last.steps[i].outcome = "skipped"
          /\ last.steps[i].pre.NestedPtr.nil
          /\ ~last.steps[i].post.NestedPtr.nil
          /\ last.steps[i].post.NestedPtr.elem.ValuePtr.nil

\* Require("CopperURL") on a nil CopperURL failed and left it nil.
C15_RequireLeavesNil ==
    /\ last.op = "Require"
    /\ last.call.names = << <<"CopperURL">> >>
    /\ last.pre.CopperURL.nil
    /\ IsErr(last.err)
    /\ obj.CopperURL.nil

\* The destination after the first n entries of order, each given to an
\* Environment call of its own.
RECURSIVE AfterEntries(_, _, _, _)
AfterEntries(o, na, order, n) ==
    IF n = 0 THEN Outcome(o, na, NoErr, FALSE, << >>, FALSE, 0)
    ELSE Environment(AfterEntries(o, na, order, n - 1).obj,
                     AfterEntries(o, na, order, n - 1).nalloc, <<order[n]>>)

EntryFails(o, na, order, n) ==
    IsErr(AfterEntries(o, na, order, n).err)
      \/ AfterEntries(o, na, order, n).panic

\* C16: Environment visits the entries in the order the map yields them and
\* stops at the first whose resolution or assignment fails.  The error names
\* that entry's path, and its key when the assignment failed; the
\* destination is what the entries before it and the failing visit made of
\* it, so nothing is rolled back and no later entry is resolved or assigned.
C16_StopsAtFirstFailure ==
    last.op = "Environment" =>
        LET es == last.call.order
            failing == { i \in 1..Len(es) :
                           EntryFails(last.pre, last.prealloc, es, i) }
            first == CHOOSE i \in failing : \A j \in failing : i <= j
            stop == IF failing = {} THEN Len(es) ELSE first
            ref == AfterEntries(last.pre, last.prealloc, es, stop)
        IN /\ Len(last.steps) = stop
           /\ \A i \in 1..stop : /\ last.steps[i].name = es[i].name
                                 /\ last.steps[i].env = es[i].env
           /\ \A i \in 1..(stop - 1) :
                 /\ last.steps[i].outcome \in {"skipped", "assigned"}
                 /\ last.steps[i].post
                      = AfterEntries(last.pre, last.prealloc, es, i).obj
           /\ obj = ref.obj
           /\ IsErr(last.err) <=> (failing # {})
           /\ IsErr(last.err) =>
                 /\ last.err.name = es[stop].name
                 /\ last.steps[stop].outcome \in {"resolve failed", "assign failed"}
                 /\ (last.steps[stop].outcome = "resolve failed") <=>
                       (last.err.kind = "could not resolve")
                 /\ (last.steps[stop].outcome = "assign failed") <=>
                       (/\ last.err.kind = "could not assign the value"
                        /\ last.err.env = es[stop].env)

\* Text was assigned, then the path No.Exist did not resolve: the call
\* returned the error of that entry and Text keeps the value it was given.
C16_Witness ==
    /\ last.op = "Environment"
    /\ last.call.order = << Entry(<<"Text">>, "FUBAR"),
                            Entry(<<"No", "Exist">>, "FUBAR") >>
    /\ last.pre.Text # "foo"
    /\ last.err.kind = "could not resolve"
    /\ last.err.name = <<"No", "Exist">>
    /\ obj.Text = "foo"

\* The path No.Exist did not resolve and the entry after it was not
\* visited: Text has the value it had.
C16_LaterEntryUntouched ==
    /\ last.op = "Environment"
    /\ last.call.order = << Entry(<<"No", "Exist">>, "FUBAR"),
                            Entry(<<"Text">>, "FUBAR") >>
    /\ IsErr(last.err)
    /\ Len(last.steps) = 1
    /\ obj.Text = last.pre.Text
    /\ obj.Text # "foo"

\* An assignment failed after an earlier entry materialized NestedPtr,
\* which stays set; the error names the path and the key.
C16_AssignFailureNamesKey ==
    /\ last.op = "Environment"
    /\ Len(last.steps) = 2
    /\ last.steps[2].outcome = "assign failed"
    /\ last.err.name = last.call.order[2].name
    /\ last.err.env = last.call.order[2].env
    /\ last.steps[1].outcome = "assigned"
    /\ obj = last.steps[2].post

\* The pointers to a struct or to a value on the way to the last segment
\* of name.
IntermediatesOf(name) ==
    { p \in { SubSeq(name, 1, k) : k \in 1..(Len(name) - 1) } :
        /\ Declared(mixConf, p).ok
        /\ Declared(mixConf, p).type.kind = "ptr"
        /\ Declared(mixConf, p).type.elem.kind # "ptr" }

\* C17 as stated: an entry whose key is unset is resolved all the same.  If
\* its path leads to no field the call returns the resolve error of that
\* entry; if it leads to one the entry is skipped with the pointers on the
\* way materialized.
C17_ResolvedBeforeLookup ==
    last.op \in EnvironmentOps =>
        \A i \in DOMAIN last.steps :
            ~LookupEnv(last.steps[i].env).ok =>
                IF Declared(mixConf, last.steps[i].name).ok
                THEN /\ last.steps[i].outcome = "skipped"
                     /\ \A p \in IntermediatesOf(last.steps[i].name) :
                           /\ Field(last.steps[i].post, p).ok
                           /\ ~Field(last.steps[i].post, p).val.nil
                ELSE /\ last.steps[i].outcome = "resolve failed"
                     /\ i = Len(last.steps)
                     /\ last.err.kind = "could not resolve"
                     /\ last.err.name = last.steps[i].name

\* The path hiddenPtr.Value leads to no field, a string having none, and
\* its key is unset: the call panicked and returned no error.
C17_UnsetKeyPanics ==
    /\ last.op = "Getenv"
    /\ last.call.order = << Entry(<<"hiddenPtr", "Value">>, MissingEnv) >>
    /\ last.pre.hiddenPtr.nil
    /\ last.panic
    /\ ~IsErr(last.err)
    /\ obj = last.pre

\* An entry for No.Exist with an unset key made Environment fail.
C17_UnknownFieldUnsetKey ==
    /\ last.op = "Environment"
    /\ \E i \in DOMAIN last.steps :
          /\ last.steps[i].name = <<"No", "Exist">>
          /\ last.steps[i].env = MissingEnv
          /\ last.steps[i].outcome = "resolve failed"
    /\ last.err.kind = "could not resolve"

\* An entry for DoublePointer.Value with an unset key failed on the nil
\* pointer to a pointer.
C17_DoublePointerUnsetKey ==
    /\ last.op = "Getenv"
    /\ last.call.order = << Entry(<<"DoublePointer", "Value">>, MissingEnv) >>
    /\ last.pre.DoublePointer.nil
    /\ last.err.cause = "pointers to pointers are unsupported"

\* The lookup of name from the struct type t when only exported fields can
\* be named: the segment and the error at which it fails first, if it does.
RECURSIVE ExportedLookup(_, _)
ExportedLookup(t, name) ==
    IF t.kind # "struct"
    THEN [ok |-> FALSE, seg |-> Head(name),
          cause |-> "cannot get field from a non-struct value"]
    ELSE IF \/ Head(name) \notin FieldNames(t)
            \/ ~FieldDecl(t, Head(name)).exported
    THEN [ok |-> FALSE, seg |-> Head(name), cause |-> "doesn't have a field"]
    ELSE IF Len(name) = 1
    THEN [ok |-> TRUE, seg |-> "", cause |-> "nil"]
    ELSE IF FieldDecl(t, Head(name)).type.kind = "ptr"
    THEN ExportedLookup(FieldDecl(t, Head(name)).type.elem, Tail(name))
    ELSE ExportedLookup(FieldDecl(t, Head(name)).type, Tail(name))

\* The result r of resolve is the one the lookup ref of exported fields
\* gives: a settable value, or the error of the first failing segment.
ResolvesAsExported(r, ref) ==
    /\ ~r.panic
    /\ ref.ok <=> ~IsErr(r.err)
    /\ ~IsErr(r.err) => CanSet(r.v)
    /\ IsErr(r.err) => (r.err.kind = ref.cause /\ r.err.seg = ref.seg)

\* C18 as stated: resolve finds exported fields only.  A segment that names
\* an unexported field fails as an unknown field, a resolution that
\* succeeds yields a settable value, and one that fails does so with the
\* unknown-field or the not-a-struct error of the first segment at which
\* the lookup fails.
C18_OnlyExportedResolve ==
    /\ last.op \in EnvironmentOps =>
          \A i \in DOMAIN last.steps :
              ResolvesAsExported(
                  resolve(last.steps[i].pre, last.prealloc, last.steps[i].name),
                  ExportedLookup(mixConf, last.steps[i].name))
    /\ last.op = "Require" =>
          ResolvesAsExported(
              resolve(last.pre, last.prealloc, last.call.names[1]),
              ExportedLookup(mixConf, last.call.names[1]))

\* The entry names the unexported field hidden and its key is unset: the
\* path resolved, the entry was skipped and the call returned nil.
C18_UnexportedResolved ==
    /\ last.op = "Getenv"
    /\ last.call.order = << Entry(<<"hidden">>, MissingEnv) >>
    /\ last.steps[1].outcome = "skipped"
    /\ ~IsErr(last.err)
    /\ ~last.panic

\* The entry names hidden and its key is set: the path resolved and the
\* call failed in assign, on a value that cannot be set.
C18_UnexportedFailsInAssign ==
    /\ last.op = "Getenv"
    /\ last.call.order = << Entry(<<"hidden">>, "FUBAR") >>
    /\ last.steps[1].outcome = "assign failed"
    /\ last.err.kind = "could not assign the value"
    /\ last.err.cause = "cannot set the value"

\* The entries of order as the iteration yields them when it runs the
\* other way.
Reversed(order) == [i \in 1..Len(order) |-> order[Len(order) + 1 - i]]

\* C19 as stated: the destination after an Environment call that returned
\* nil is the one the same map gives when its entries are visited in the
\* other order.
C19_OrderIndependent ==
    (last.op = "Environment" /\ ~IsErr(last.err) /\ ~last.panic) =>
        obj = Environment(last.pre, last.prealloc,
                          Reversed(last.call.order)).obj

\* The map {NestedPtr.Value: FUBAR, NestedPtr: DUMB_USAGE} was visited
\* with NestedPtr last and the call returned nil; visited the other way the
\* call returns nil too, with another Value.
C19_OrderDecides ==
    /\ last.op = "Environment"
    /\ last.call.order = << Entry(<<"NestedPtr", "Value">>, "FUBAR"),
                            Entry(<<"NestedPtr">>, "DUMB_USAGE") >>
    /\ ~IsErr(last.err)
    /\ ~last.panic
    /\ obj.NestedPtr.elem.Value = "x"
    /\ ~IsErr(Environment(last.pre, last.prealloc,
                          Reversed(last.call.order)).err)
    /\ Environment(last.pre, last.prealloc,
                   Reversed(last.call.order)).obj.NestedPtr.elem.Value = "foo"

\* The fields of the destination that are pointers.
PointerFields ==
    { f \in FieldNames(mixConf) : FieldDecl(mixConf, f).type.kind = "ptr" }

\* C20: Require of a pointer field that is not nil passes whatever it
\* points to.  So it does for a field that was nil at the start and that
\* an earlier call set to a pointer to a zero value, no value having been
\* stored in it.
C20_RequirePassesOnNonNil ==
    \A f \in PointerFields :
        (/\ last.op = "Require"
         /\ last.call.names = << <<f>> >>
         /\ ~last.pre[f].nil) =>
            /\ ~IsErr(last.err)
            /\ ~last.panic
            /\ obj = last.pre

\* NestedPtr was nil at the start; the call before set it to a pointer to a
\* zero struct, as resolving NestedPtr.Value does, and Require("NestedPtr")
\* then passed.
C20_Witness ==
    /\ orig.NestedPtr.nil
    /\ ncalls = 2
    /\ last.op = "Require"
    /\ last.call.names = << <<"NestedPtr">> >>
    /\ ~last.pre.NestedPtr.nil
    /\ last.pre.NestedPtr.elem = Zero(nested)
    /\ last.pre = Require(orig, last.prealloc - 1,
                          << <<"NestedPtr", "Value">> >>).obj
    /\ IsErr(Require(orig, last.prealloc - 1,
                     << <<"NestedPtr", "Value">> >>).err)
    /\ ~IsErr(last.err)
    /\ ~last.panic

\* CopperURL was nil at the start; the call before set it for an assignment
\* whose conversion failed, and Require("CopperURL") then passed.
C20_AfterFailedAssignment ==
    /\ orig.CopperURL.nil
    /\ ncalls = 2
    /\ last.op = "Require"
    /\ last.call.names = << <<"CopperURL">> >>
    /\ last.pre = Environment(orig, last.prealloc - 1,
                              << Entry(<<"CopperURL">>, "URL_BAD") >>).obj
    /\ Environment(orig, last.prealloc - 1,
                   << Entry(<<"CopperURL">>, "URL_BAD") >>).err.kind
         = "could not assign the value"
    /\ ~last.pre.CopperURL.nil
    /\ ~IsErr(last.err)

\* The visits of the latest call that assigned a JSON payload to a field
\* that is a pointer to a struct.
PayloadVisits ==
    IF last.op \in EnvironmentOps
    THEN { i \in DOMAIN last.steps :
             /\ last.steps[i].outcome = "assigned"
             /\ last.steps[i].strategy = "json"
             /\ Len(last.steps[i].name) = 1
             /\ FieldTypeAt(mixConf, last.steps[i].name).kind = "ptr"
             /\ FieldTypeAt(mixConf, last.steps[i].name).elem.kind = "struct" }
    ELSE {}

\* The payload p was decoded into the struct was and left the struct now:
\* a member of p that names a string field set it, and the fields that p
\* does not name are as they were.
DecodedInto(p, was, now) ==
    \A f \in DOMAIN now :
        IF \E k \in DOMAIN p.keys : p.keys[k] = f
        THEN \A k \in DOMAIN p.keys :
                 (p.keys[k] = f /\ p.vals[k].t = "string") =>
                     now[f] = p.vals[k].s
        ELSE now[f] = was[f]

\* C21: a JSON payload assigned from the environment to a pointer to a
\* struct is decoded into the struct the pointer points to.  A pointer
\* that is not nil stays the pointer it was and the fields the payload
\* does not name keep their values; a nil pointer is first set to a new
\* zero struct.
C21_DecodedIntoPointee ==
    \A i \in PayloadVisits :
        /\ ~Field(last.steps[i].post, last.steps[i].name).val.nil
        /\ IF Field(last.steps[i].pre, last.steps[i].name).val.nil
           THEN /\ Field(last.steps[i].post, last.steps[i].name).val.id
                     > last.prealloc
                /\ DecodedInto(
                     ParseJSON(LookupEnv(last.steps[i].env).val),
                     Zero(FieldTypeAt(mixConf, last.steps[i].name).elem),
                     Field(last.steps[i].post, last.steps[i].name).val.elem)
           ELSE /\ Field(last.steps[i].post, last.steps[i].name).val.id
                     = Field(last.steps[i].pre, last.steps[i].name).val.id
                /\ DecodedInto(
                     ParseJSON(LookupEnv(last.steps[i].env).val),
                     Field(last.steps[i].pre, last.steps[i].name).val.elem,
                     Field(last.steps[i].post, last.steps[i].name).val.elem)

\* NestedPtr.ValuePtr was set from FUBAR, then the payload of DUMB_USAGE,
\* which names Value only, was assigned to NestedPtr: NestedPtr is the
\* pointer it was, Value is "x" and ValuePtr still points to "foo".
C21_Witness ==
    /\ last.op = "Environment"
    /\ last.call.order = << Entry(<<"NestedPtr", "ValuePtr">>, "FUBAR"),
                            Entry(<<"NestedPtr">>, "DUMB_USAGE") >>
    /\ ~IsErr(last.err)
    /\ 2 \in PayloadVisits
    /\ last.steps[2].pre.NestedPtr.elem.ValuePtr.elem = "foo"
    /\ obj.NestedPtr.id = last.steps[2].pre.NestedPtr.id
    /\ obj.NestedPtr.elem.Value = "x"
    /\ obj.NestedPtr.elem.ValuePtr = last.steps[2].pre.NestedPtr.elem.ValuePtr

\* The payload was assigned to a nil NestedPtr: it points to a new struct
\* with Value "x" and no ValuePtr.
C21_NilReplaced ==
    /\ last.op = "Getenv"
    /\ last.call.order = << Entry(<<"NestedPtr">>, "DUMB_USAGE") >>
    /\ last.pre.NestedPtr.nil
    /\ 1 \in PayloadVisits
    /\ obj.NestedPtr = PtrTo(last.prealloc + 1,
                             [Value |-> "x", ValuePtr |-> NilPtr])

\* The caller's NestedPtr with Value "old" took the payload: the same
\* pointer, Value "x".
C21_DefaultOverwritten ==
    /\ last.op = "Getenv"
    /\ last.call.order = << Entry(<<"NestedPtr">>, "DUMB_USAGE") >>
    /\ ~last.pre.NestedPtr.nil
    /\ last.pre.NestedPtr.elem.Value = "old"
    /\ obj.NestedPtr.id = last.pre.NestedPtr.id
    /\ obj.NestedPtr.elem.Value = "x"

====
